---- MODULE Spec2Model ----
(***************************************************************************)
(* Model of the wind dashboard's 15-minute aggregation                     *)
(* (Home.aggregatedWindData, identical in ChartView and App), of the       *)
(* filter in front of it (Home.processedWindData) and of the useWindData   *)
(* hook with its module-level cache.                                       *)
(*                                                                         *)
(* Specifications:                                                         *)
(*   Spec         one aggregation call on validated, sorted observations   *)
(*   SpecLive     Spec with the fairness of a running call, wider gaps     *)
(*   SpecProcess  fetched data through processedWindData and the window    *)
(*                filter                                                   *)
(*   SpecTwoCalls two aggregation calls whose steps interleave             *)
(*   SpecHook     useWindData: effects, query responses, cache, clock      *)
(*   SpecHome     Home with both hooks: user events, renders, the search   *)
(*   SpecHomeLive SpecHome with fair renders and responses                 *)
(*   SpecChartView ChartView with both hooks: its navigation handlers      *)
(*                                                                         *)
(* Time is counted in seconds since a local midnight.  Wind speed and gust *)
(* are exact rationals (reduced fractions), wind direction is in whole     *)
(* degrees; sines and cosines are fixed-point values in thousandths.       *)
(* IEEE rounding of the JavaScript doubles is not modelled.                *)
(***************************************************************************)
EXTENDS Integers, Sequences, FiniteSets, TLC

VARIABLES
    windData,               \* useWindData's data: the fetched observations
    processedWindData,      \* the validated, de-duplicated, time-sorted observations
    todayTimeWindow,        \* NULL or [start, end]
    filteredData,           \* processedWindData restricted to todayTimeWindow
    aggregatedData,         \* the buckets pushed so far
    currentIntervalStart,
    nextIntervalStart,
    sumWindSpeed,
    sumWindGust,
    sumWindDirectionSin,
    sumWindDirectionCos,
    count,
    idx,                    \* position of forEach in filteredData (1-based)
    pc,                     \* "process", "start", "forEach" or "done"
    call2,                  \* the locals of a second aggregation call
    hookRange,              \* useWindData: key of the startDate/endDate props
    loading,
    error,
    isEmpty,
    isMountedRef,
    instance,               \* number of the mounted hook instance
    cache,                  \* the module-level Map, per range key
    inflight,               \* getDocs promises not yet settled
    effects,                \* number of effect runs so far
    queries,                \* number of getDocs calls so far
    dateNow,                \* Date.now()
    currentDate,            \* Home / ChartView state: the date shown, in seconds
    timeRange,
    showForecast,
    showOnlyForecast,
    searchingWindyDays,     \* NULL or [direction]
    searchAttemptsRef,
    clicks,                 \* number of user events handled so far
    failures,               \* number of rejected promises so far
    forecastData,           \* useForecast's data
    forecastLoading,
    forecastError,
    forecastInflight,       \* fetch promises of useForecast not yet settled
    abortControllerRef,     \* number of the request the current controller belongs to
    fetchPending,           \* the effects of the two hooks have to run
    searchPending           \* the windy-day search effect has to run

aggVars == <<processedWindData, todayTimeWindow, filteredData, aggregatedData,
             currentIntervalStart, nextIntervalStart, sumWindSpeed, sumWindGust,
             sumWindDirectionSin, sumWindDirectionCos, count, idx, pc>>

hookVars == <<hookRange, loading, error, isEmpty, isMountedRef, instance, cache,
              inflight, effects, queries, dateNow>>

\* what an aggregation call of the first caller leaves alone
homeVars == <<currentDate, timeRange, showForecast, showOnlyForecast,
              searchingWindyDays, searchAttemptsRef, clicks>>

forecastVars == <<forecastData, forecastLoading, forecastError, forecastInflight,
                  abortControllerRef>>

\* which effects React still has to run after the last render, and how many
\* promises were rejected
renderVars == <<fetchPending, searchPending, failures>>

envVars == <<windData, call2, hookVars, homeVars, forecastVars, renderVars>>

vars == <<windData, aggVars, call2, hookVars, homeVars, forecastVars, renderVars>>

----------------------------------------------------------------------------
(* Bounds of the model *)

MaxLen == 3             \* longest processedWindData
FirstQuarter == 2       \* observations lie in the quarters of an hour
MaxQuarter == 4         \*   FirstQuarter..MaxQuarter of the day
MaxRawLen == 3          \* longest fetched windData in SpecProcess
MaxLiveLen == 2         \* longest processedWindData in SpecLive
MaxLiveQuarter == 6     \* SpecLive: quarters FirstQuarter..MaxLiveQuarter
MaxTwoLen == 2          \* longest input of a call in SpecTwoCalls

NumRanges == 2          \* date ranges a useWindData hook is asked for
MaxTicks == 3           \* the clock stops after MaxTicks steps
MaxEffects == 3         \* effect runs of useWindData
MaxEvents == 2          \* user events and rejected promises in a Home or ChartView session

(* Program constants *)

INTERVAL_MINUTES == 15
SECONDS_PER_MINUTE == 60
SECONDS_PER_HOUR == 3600
WINDOW_HOURS_BACK == 6
WINDOW_HOURS_AHEAD == 16
FULL_CIRCLE == 360
HALF_CIRCLE == 180

NULL == [null |-> TRUE]

Ranges == 1..NumRanges

\* JavaScript numbers that are results of a division are fractions
\* [num, den] in lowest terms; NaN (0 / 0) is the fraction 0/0.
NaN == [num |-> 0, den |-> 0]

----------------------------------------------------------------------------
(* Inputs *)

IntervalSeconds == INTERVAL_MINUTES * SECONDS_PER_MINUTE

\* Offsets inside a quarter of an hour: its first second, the last second
\* before the half, and the half.
QuarterOffsets == {0, IntervalSeconds \div 2 - 1, IntervalSeconds \div 2}

Times == {q * IntervalSeconds + o : q \in FirstQuarter..MaxQuarter, o \in QuarterOffsets}

\* windSpeed and windGust in tenths of m/s, windDirection in degrees
\* (not required to be normalised on input).
Readings ==
    { [windSpeed |-> 30, windGust |-> 50, windDirection |-> 350],
      [windSpeed |-> 65, windGust |-> 80, windDirection |-> 10],
      [windSpeed |-> 65, windGust |-> 90, windDirection |-> 360] }

Observation(t, r) ==
    [time |-> t, windSpeed |-> r.windSpeed, windGust |-> r.windGust,
     windDirection |-> r.windDirection]

Observations == {Observation(t, r) : t \in Times, r \in Readings}

\* processedWindData is sorted ascending by time and holds no timestamp twice.
IsProcessed(s) == \A i \in 1..(Len(s) - 1) : s[i].time < s[i + 1].time

ProcessedInputs ==
    UNION { {s \in [1..n -> Observations] : IsProcessed(s)} : n \in 0..MaxLen }

\* The "Idag" window around the current time.
subHours(t, h) == t - h * SECONDS_PER_HOUR
addHours(t, h) == t + h * SECONDS_PER_HOUR

TodayWindow(now) ==
    [start |-> subHours(now, WINDOW_HOURS_BACK), end |-> addHours(now, WINDOW_HOURS_AHEAD)]

\* Current times for which the window starts inside the data, or ends before
\* any data.
NowChoices ==
    { WINDOW_HOURS_BACK * SECONDS_PER_HOUR + FirstQuarter * IntervalSeconds
          + IntervalSeconds \div 2,
      0 - WINDOW_HOURS_AHEAD * SECONDS_PER_HOUR - 1 }

TimeWindows == {NULL} \cup {TodayWindow(now) : now \in NowChoices}

\* A field of a fetched document as JavaScript sees it: its typeof, whether
\* it is the number NaN, and its value when it is a finite number.
Num(n) == [typeof |-> "number", nan |-> FALSE, value |-> n]
NaNNumber == [typeof |-> "number", nan |-> TRUE, value |-> 0]
Undefined == [typeof |-> "undefined", nan |-> FALSE, value |-> 0]
StringValue == [typeof |-> "string", nan |-> FALSE, value |-> 0]

\* A WindData object as useWindData builds it from a document: time is always
\* a Date, valid or not (getTime() is NaN for an invalid one).
Fetched(t, valid, speed, gust, direction) ==
    [time |-> t, validTime |-> valid, windSpeed |-> speed, windGust |-> gust,
     windDirection |-> direction]

\* the fetched object behind a validated observation
FetchedOf(o) ==
    Fetched(o.time, TRUE, Num(o.windSpeed), Num(o.windGust), Num(o.windDirection))

FetchedObservations ==
    LET t0 == FirstQuarter * IntervalSeconds
        t1 == t0 + IntervalSeconds \div 2
        t2 == t0 + IntervalSeconds
    IN  { Fetched(t0, TRUE, Num(30), Num(50), Num(350)),
          Fetched(t0, TRUE, Num(65), Num(80), Num(10)),
          Fetched(t1, TRUE, Num(65), Num(90), Num(360)),
          Fetched(0, FALSE, Num(30), Num(50), Num(350)),
          Fetched(t2, TRUE, NaNNumber, Num(50), Num(350)),
          Fetched(t2, TRUE, Num(30), Undefined, Num(350)),
          Fetched(t1, TRUE, Num(30), Num(50), StringValue) }

\* fetched data in any order, with duplicates and invalid entries
FetchedInputs == UNION { [1..n -> FetchedObservations] : n \in 0..MaxRawLen }

----------------------------------------------------------------------------
(* Arithmetic *)

Abs(n) == IF n < 0 THEN 0 - n ELSE n

RECURSIVE GCD(_, _)
GCD(a, b) == IF b = 0 THEN a ELSE GCD(b, a % b)

\* JavaScript a / b on exact rationals: a reduced fraction, NaN for 0 / 0.
Div(a, b) ==
    IF b = 0 THEN NaN
    ELSE LET g == GCD(Abs(a), b)
         IN  [num |-> a \div g, den |-> b \div g]

SinTable ==
    << 0, 17, 35, 52, 70, 87, 105, 122, 139, 156, 174, 191, 208,
       225, 242, 259, 276, 292, 309, 326, 342, 358, 375, 391, 407, 423,
       438, 454, 469, 485, 500, 515, 530, 545, 559, 574, 588, 602, 616,
       629, 643, 656, 669, 682, 695, 707, 719, 731, 743, 755, 766, 777,
       788, 799, 809, 819, 829, 839, 848, 857, 866, 875, 883, 891, 899,
       906, 914, 921, 927, 934, 940, 946, 951, 956, 961, 966, 970, 974,
       978, 982, 985, 988, 990, 993, 995, 996, 998, 999, 999, 1000, 1000 >>

\* Math.sin and Math.cos of an angle given in degrees, in thousandths.
Sin(deg) ==
    LET d == ((deg % FULL_CIRCLE) + FULL_CIRCLE) % FULL_CIRCLE
    IN  IF d <= 90 THEN SinTable[d + 1]
        ELSE IF d <= 180 THEN SinTable[180 - d + 1]
        ELSE IF d <= 270 THEN 0 - SinTable[d - 180 + 1]
        ELSE 0 - SinTable[360 - d + 1]

Cos(deg) == Sin(deg + 90)

Atan2Deg_Swapped(y, x) ==
    IF y = NaN \/ x = NaN THEN NaN
    ELSE LET yy == x.num * y.den
             xx == y.num * x.den
             Cross(d) == Cos(d) * yy - Sin(d) * xx
             Dot(d) == Cos(d) * xx + Sin(d) * yy
         IN  IF yy = 0 /\ xx = 0 THEN Div(0, 1)
             ELSE Div(CHOOSE d \in (1 - HALF_CIRCLE)..HALF_CIRCLE :
                         Cross(d) >= 0 /\ Cross(d + 1) < 0 /\ Dot(d) > 0, 1)

\* Math.atan2(y, x) * 180 / Math.PI for two fractions, to the whole degree
\* below: the d in -179..180 with d <= angle < d + 1.  atan2(0, 0) is 0.
Atan2Deg(y, x) ==
    IF y = NaN \/ x = NaN THEN NaN
    ELSE LET yy == y.num * x.den
             xx == x.num * y.den
             Cross(d) == Cos(d) * yy - Sin(d) * xx
             Dot(d) == Cos(d) * xx + Sin(d) * yy
         IN  IF yy = 0 /\ xx = 0 THEN Div(0, 1)
             ELSE Div(CHOOSE d \in (1 - HALF_CIRCLE)..HALF_CIRCLE :
                         Cross(d) >= 0 /\ Cross(d + 1) < 0 /\ Dot(d) > 0, 1)

\* The JavaScript % operator on integers: the remainder has the sign of the
\* dividend.
JsRem(a, n) == IF a >= 0 THEN a % n ELSE 0 - ((0 - a) % n)

AdjustedWindDirection_NoOffset(avg) ==
    IF avg = NaN THEN NaN ELSE Div(JsRem(avg.num, FULL_CIRCLE), 1)

\* (avgWindDirection + 360) % 360
AdjustedWindDirection(avg) ==
    IF avg = NaN THEN NaN ELSE Div(JsRem(avg.num + FULL_CIRCLE, FULL_CIRCLE), 1)

----------------------------------------------------------------------------
(* date-fns helpers *)

addMinutes(t, m) == t + m * SECONDS_PER_MINUTE

\* roundToNearestMinutes(date, {nearestTo}): the minutes of the hour, with the
\* seconds as a fraction, are rounded to the nearest multiple of nearestTo
\* (Math.round: a half rounds up); seconds are set to zero.
roundToNearestMinutes_Identity(t, nearestTo) == t

roundToNearestMinutes(t, nearestTo) ==
    LET hourStart == t - (t % SECONDS_PER_HOUR)
        secondsInHour == t % SECONDS_PER_HOUR
        unit == nearestTo * SECONDS_PER_MINUTE
        roundedMinutes == ((2 * secondsInHour + unit) \div (2 * unit)) * nearestTo
    IN  addMinutes(hourStart, roundedMinutes)

----------------------------------------------------------------------------
(* aggregatedWindData *)

FilterWindow_KeepAll(data, window) == data

\* the todayTimeWindow filter, both ends inclusive
FilterWindow(data, window) ==
    IF window = NULL THEN data
    ELSE LET InWindow(o) == o.time >= window.start /\ o.time <= window.end
         IN  SelectSeq(data, InWindow)

----------------------------------------------------------------------------
(* processedWindData *)

\* the checks of the filter callback in front of the seenTimes test
PassesChecks(o) ==
    /\ o.validTime
    /\ o.windSpeed.typeof = "number"
    /\ o.windDirection.typeof = "number"
    /\ o.windGust.typeof = "number"

\* windData.filter(...): keeps the first object of every timestamp among those
\* that pass the checks
RECURSIVE FilterValid(_, _)
FilterValid(s, seenTimes) ==
    IF Len(s) = 0 THEN <<>>
    ELSE IF ~PassesChecks(Head(s)) \/ Head(s).time \in seenTimes
         THEN FilterValid(Tail(s), seenTimes)
         ELSE <<Head(s)>> \o FilterValid(Tail(s), seenTimes \cup {Head(s).time})

\* insert o behind the last element that does not compare greater
RECURSIVE InsertByTime(_, _)
InsertByTime(o, s) ==
    IF Len(s) = 0 THEN <<o>>
    ELSE IF o.time - Head(s).time < 0 THEN <<o>> \o s
         ELSE <<Head(s)>> \o InsertByTime(o, Tail(s))

SortByTime_Unsorted(s) == s

\* .sort((a, b) => a.time.getTime() - b.time.getTime()), a stable sort
RECURSIVE SortByTime(_)
SortByTime(s) ==
    IF Len(s) = 0 THEN <<>>
    ELSE InsertByTime(s[Len(s)], SortByTime(SubSeq(s, 1, Len(s) - 1)))

ProcessedOf(data) == SortByTime(FilterValid(data, {}))

NextIntervalStart_FiveMinutes(start) == addMinutes(start, 5)

NextIntervalStart(start) == addMinutes(start, INTERVAL_MINUTES)

AtOrPastIntervalEnd_Strict(t, next) == t > next

AtOrPastIntervalEnd_CurrentStart(t, next) == t >= next - IntervalSeconds

\* the condition of the while loop
AtOrPastIntervalEnd(t, next) == t >= next

AvgValue_NoDivide(sum, cnt) == Div(sum, 1)

AvgValue(sum, cnt) == Div(sum, cnt)

\* the object pushed onto aggregatedData
Bucket(start, sSpeed, sGust, sSin, sCos, cnt) ==
    [time |-> start,
     windSpeed |-> AvgValue(sSpeed, cnt),
     windGust |-> AvgValue(sGust, cnt),
     windDirection |-> AdjustedWindDirection(Atan2Deg(Div(sSin, cnt), Div(sCos, cnt))),
     isForecast |-> FALSE]

PushBucket_NoCountGuard(out, start, sSpeed, sGust, sSin, sCos, cnt) ==
    Append(out, Bucket(start, sSpeed, sGust, sSin, sCos, cnt))

\* if (count > 0) aggregatedData.push(...)
PushBucket(out, start, sSpeed, sGust, sSin, sCos, cnt) ==
    IF cnt > 0 THEN Append(out, Bucket(start, sSpeed, sGust, sSin, sCos, cnt))
    ELSE out

\* the second caller has not called
NoCall == [pc |-> "none"]

NoEntry == [present |-> FALSE, data |-> <<>>, timestamp |-> 0]

\* no useWindData hook has been mounted yet
HookIdle ==
    /\ hookRange = 0
    /\ loading = TRUE
    /\ error = NULL
    /\ isEmpty = FALSE
    /\ isMountedRef = FALSE
    /\ instance = 0
    /\ cache = [k \in Ranges |-> NoEntry]
    /\ inflight = {}
    /\ effects = 0
    /\ queries = 0
    /\ dateNow = 0

\* The locals of an aggregation call before it starts.
\* no Home or ChartView component around the code under study
HomeIdle ==
    /\ currentDate = 0
    /\ timeRange = 1
    /\ showForecast = TRUE
    /\ showOnlyForecast = FALSE
    /\ searchingWindyDays = NULL
    /\ searchAttemptsRef = 0
    /\ clicks = 0
    /\ failures = 0
    /\ forecastData = <<>>
    /\ forecastLoading = TRUE
    /\ forecastError = NULL
    /\ forecastInflight = {}
    /\ abortControllerRef = 0
    /\ fetchPending = FALSE
    /\ searchPending = FALSE

AggregationNotStarted ==
    /\ filteredData = <<>>
    /\ aggregatedData = <<>>
    /\ currentIntervalStart = 0
    /\ nextIntervalStart = 0
    /\ sumWindSpeed = 0
    /\ sumWindGust = 0
    /\ sumWindDirectionSin = 0
    /\ sumWindDirectionCos = 0
    /\ count = 0
    /\ idx = 0

Init ==
    /\ processedWindData \in ProcessedInputs
    /\ windData = [i \in 1..Len(processedWindData) |-> FetchedOf(processedWindData[i])]
    /\ call2 = NoCall
    /\ HookIdle
    /\ HomeIdle
    /\ todayTimeWindow \in TimeWindows
    /\ AggregationNotStarted
    /\ pc = "start"

\* The early returns, the window filter and the initialisation of the locals.
AggregateBegin ==
    /\ pc = "start"
    /\ LET filtered == IF Len(processedWindData) = 0 THEN <<>>
                       ELSE FilterWindow(processedWindData, todayTimeWindow)
       IN  /\ filteredData' = filtered
           /\ IF Len(filtered) = 0
              THEN /\ pc' = "done"
                   /\ UNCHANGED <<currentIntervalStart, nextIntervalStart, idx>>
              ELSE /\ pc' = "forEach"
                   /\ currentIntervalStart' =
                          roundToNearestMinutes(filtered[1].time, INTERVAL_MINUTES)
                   /\ nextIntervalStart' = NextIntervalStart(currentIntervalStart')
                   /\ idx' = 1
    /\ aggregatedData' = <<>>
    /\ sumWindSpeed' = 0
    /\ sumWindGust' = 0
    /\ sumWindDirectionSin' = 0
    /\ sumWindDirectionCos' = 0
    /\ count' = 0
    /\ UNCHANGED <<processedWindData, todayTimeWindow>>
    /\ UNCHANGED envVars

CloseInterval_KeepStart ==
    /\ pc = "forEach"
    /\ idx <= Len(filteredData)
    /\ AtOrPastIntervalEnd(filteredData[idx].time, nextIntervalStart)
    /\ aggregatedData' = PushBucket(aggregatedData, currentIntervalStart, sumWindSpeed,
                                    sumWindGust, sumWindDirectionSin,
                                    sumWindDirectionCos, count)
    /\ currentIntervalStart' = currentIntervalStart
    /\ nextIntervalStart' = NextIntervalStart(nextIntervalStart)
    /\ sumWindSpeed' = 0
    /\ sumWindGust' = 0
    /\ sumWindDirectionSin' = 0
    /\ sumWindDirectionCos' = 0
    /\ count' = 0
    /\ UNCHANGED <<processedWindData, todayTimeWindow, filteredData, idx, pc>>
    /\ UNCHANGED envVars

\* One iteration of the while loop: close the current interval and move on.
CloseInterval ==
    /\ pc = "forEach"
    /\ idx <= Len(filteredData)
    /\ AtOrPastIntervalEnd(filteredData[idx].time, nextIntervalStart)
    /\ aggregatedData' = PushBucket(aggregatedData, currentIntervalStart, sumWindSpeed,
                                    sumWindGust, sumWindDirectionSin,
                                    sumWindDirectionCos, count)
    /\ currentIntervalStart' = nextIntervalStart
    /\ nextIntervalStart' = NextIntervalStart(currentIntervalStart')
    /\ sumWindSpeed' = 0
    /\ sumWindGust' = 0
    /\ sumWindDirectionSin' = 0
    /\ sumWindDirectionCos' = 0
    /\ count' = 0
    /\ UNCHANGED <<processedWindData, todayTimeWindow, filteredData, idx, pc>>
    /\ UNCHANGED envVars

\* The rest of the forEach callback: add the observation to the accumulator.
Accumulate ==
    /\ pc = "forEach"
    /\ idx <= Len(filteredData)
    /\ ~AtOrPastIntervalEnd(filteredData[idx].time, nextIntervalStart)
    /\ LET data == filteredData[idx]
       IN  /\ sumWindSpeed' = sumWindSpeed + data.windSpeed
           /\ sumWindGust' = sumWindGust + data.windGust
           /\ sumWindDirectionSin' = sumWindDirectionSin + Sin(data.windDirection)
           /\ sumWindDirectionCos' = sumWindDirectionCos + Cos(data.windDirection)
    /\ count' = count + 1
    /\ idx' = idx + 1
    /\ UNCHANGED <<processedWindData, todayTimeWindow, filteredData, aggregatedData,
                   currentIntervalStart, nextIntervalStart, pc>>
    /\ UNCHANGED envVars

EmitLast_NoPush ==
    /\ pc = "forEach"
    /\ idx > Len(filteredData)
    /\ pc' = "done"
    /\ UNCHANGED <<processedWindData, todayTimeWindow, filteredData, aggregatedData,
                   currentIntervalStart, nextIntervalStart, sumWindSpeed, sumWindGust,
                   sumWindDirectionSin, sumWindDirectionCos, count, idx>>
    /\ UNCHANGED envVars

\* After the loop: add the last aggregated data point and return.
EmitLast ==
    /\ pc = "forEach"
    /\ idx > Len(filteredData)
    /\ aggregatedData' = PushBucket(aggregatedData, currentIntervalStart, sumWindSpeed,
                                    sumWindGust, sumWindDirectionSin,
                                    sumWindDirectionCos, count)
    /\ pc' = "done"
    /\ UNCHANGED <<processedWindData, todayTimeWindow, filteredData,
                   currentIntervalStart, nextIntervalStart, sumWindSpeed, sumWindGust,
                   sumWindDirectionSin, sumWindDirectionCos, count, idx>>
    /\ UNCHANGED envVars

Next ==
    \/ AggregateBegin
    \/ CloseInterval
    \/ Accumulate
    \/ EmitLast

Spec == Init /\ [][Next]_vars

----------------------------------------------------------------------------
(* One aggregation call that runs to completion, on inputs with wider gaps *)

\* the first second and the half of every quarter
LiveTimes ==
    {q * IntervalSeconds + o : q \in FirstQuarter..MaxLiveQuarter,
                               o \in {0, IntervalSeconds \div 2}}

LiveObservations ==
    {Observation(t, [windSpeed |-> 30, windGust |-> 50, windDirection |-> 350]) :
        t \in LiveTimes}

LiveInputs ==
    UNION { {s \in [1..n -> LiveObservations] : IsProcessed(s)} : n \in 0..MaxLiveLen }

InitLive ==
    /\ processedWindData \in LiveInputs
    /\ windData = [i \in 1..Len(processedWindData) |-> FetchedOf(processedWindData[i])]
    /\ call2 = NoCall
    /\ HookIdle
    /\ HomeIdle
    /\ todayTimeWindow \in TimeWindows
    /\ AggregationNotStarted
    /\ pc = "start"

\* The call is synchronous JavaScript: once started it keeps taking steps.
SpecLive == InitLive /\ [][Next]_vars /\ WF_vars(Next)

----------------------------------------------------------------------------
(* Two aggregation calls, each with its own locals, whose steps interleave *)

\* the locals of a call that is about to start on the given input
InitialCall(input, window) ==
    [processedWindData |-> input, todayTimeWindow |-> window, filteredData |-> <<>>,
     aggregatedData |-> <<>>, currentIntervalStart |-> 0, nextIntervalStart |-> 0,
     sumWindSpeed |-> 0, sumWindGust |-> 0, sumWindDirectionSin |-> 0,
     sumWindDirectionCos |-> 0, count |-> 0, idx |-> 0, pc |-> "start"]

\* the locals of a call after its next step: the early returns and the
\* initialisation, one iteration of the while loop, the rest of the forEach
\* callback, or the push after the loop
CallStep(c) ==
    IF c.pc = "start"
    THEN LET filtered == IF Len(c.processedWindData) = 0 THEN <<>>
                         ELSE FilterWindow(c.processedWindData, c.todayTimeWindow)
             first == roundToNearestMinutes(filtered[1].time, INTERVAL_MINUTES)
         IN  IF Len(filtered) = 0
             THEN [c EXCEPT !.filteredData = filtered, !.pc = "done"]
             ELSE [c EXCEPT !.filteredData = filtered,
                            !.currentIntervalStart = first,
                            !.nextIntervalStart = NextIntervalStart(first),
                            !.idx = 1,
                            !.pc = "forEach"]
    ELSE IF c.idx > Len(c.filteredData)
    THEN [c EXCEPT !.aggregatedData =
                       PushBucket(c.aggregatedData, c.currentIntervalStart,
                                  c.sumWindSpeed, c.sumWindGust, c.sumWindDirectionSin,
                                  c.sumWindDirectionCos, c.count),
                   !.pc = "done"]
    ELSE IF AtOrPastIntervalEnd(c.filteredData[c.idx].time, c.nextIntervalStart)
    THEN [c EXCEPT !.aggregatedData =
                       PushBucket(c.aggregatedData, c.currentIntervalStart,
                                  c.sumWindSpeed, c.sumWindGust, c.sumWindDirectionSin,
                                  c.sumWindDirectionCos, c.count),
                   !.currentIntervalStart = c.nextIntervalStart,
                   !.nextIntervalStart = NextIntervalStart(c.nextIntervalStart),
                   !.sumWindSpeed = 0,
                   !.sumWindGust = 0,
                   !.sumWindDirectionSin = 0,
                   !.sumWindDirectionCos = 0,
                   !.count = 0]
    ELSE LET data == c.filteredData[c.idx]
         IN  [c EXCEPT !.sumWindSpeed = c.sumWindSpeed + data.windSpeed,
                       !.sumWindGust = c.sumWindGust + data.windGust,
                       !.sumWindDirectionSin =
                           c.sumWindDirectionSin + Sin(data.windDirection),
                       !.sumWindDirectionCos =
                           c.sumWindDirectionCos + Cos(data.windDirection),
                       !.count = c.count + 1,
                       !.idx = c.idx + 1]

\* a call run from its current position to its end without interruption
RECURSIVE RunCall(_)
RunCall(c) == IF c.pc = "done" THEN c ELSE RunCall(CallStep(c))

TwoCallTimes ==
    {FirstQuarter * IntervalSeconds + o :
        o \in {0, IntervalSeconds \div 2, IntervalSeconds}}

TwoCallObservations ==
    {Observation(t, r) : t \in TwoCallTimes,
                         r \in {x \in Readings : x.windDirection < FULL_CIRCLE}}

TwoCallInputs ==
    UNION { {s \in [1..n -> TwoCallObservations] : IsProcessed(s)} : n \in 1..MaxTwoLen }

InitTwoCalls ==
    /\ processedWindData \in TwoCallInputs
    /\ windData = [i \in 1..Len(processedWindData) |-> FetchedOf(processedWindData[i])]
    /\ todayTimeWindow = NULL
    /\ AggregationNotStarted
    /\ pc = "start"
    /\ \E input \in TwoCallInputs :
          /\ input # processedWindData
          /\ call2 = InitialCall(input, NULL)
    /\ HookIdle
    /\ HomeIdle

Call2Step_SharedAccumulator ==
    /\ call2.pc \in {"start", "forEach"}
    /\ call2' = CallStep([call2 EXCEPT !.sumWindSpeed = sumWindSpeed,
                                       !.sumWindGust = sumWindGust,
                                       !.sumWindDirectionSin = sumWindDirectionSin,
                                       !.sumWindDirectionCos = sumWindDirectionCos,
                                       !.count = count])
    /\ sumWindSpeed' = call2'.sumWindSpeed
    /\ sumWindGust' = call2'.sumWindGust
    /\ sumWindDirectionSin' = call2'.sumWindDirectionSin
    /\ sumWindDirectionCos' = call2'.sumWindDirectionCos
    /\ count' = call2'.count
    /\ UNCHANGED <<processedWindData, todayTimeWindow, filteredData, aggregatedData,
                   currentIntervalStart, nextIntervalStart, idx, pc>>
    /\ UNCHANGED <<windData, hookVars, homeVars, forecastVars, renderVars>>

\* one step of the second call, on its own locals
Call2Step ==
    /\ call2.pc \in {"start", "forEach"}
    /\ call2' = CallStep(call2)
    /\ UNCHANGED <<windData, aggVars, hookVars, homeVars, forecastVars, renderVars>>

NextTwoCalls ==
    \/ AggregateBegin
    \/ CloseInterval
    \/ Accumulate
    \/ EmitLast
    \/ Call2Step

SpecTwoCalls == InitTwoCalls /\ [][NextTwoCalls]_vars

----------------------------------------------------------------------------
(* useWindData *)

\* milliseconds
CACHE_TIME == 5 * 60 * 1000

\* the clock advances in half cache lifetimes
ClockStep == CACHE_TIME \div 2

\* the day on which the Home or ChartView component is mounted
TodayDay == 40

\* the days a Home or ChartView component can ask for
HomeDays == (TodayDay - 32)..(TodayDay + 12)

\* among them, the days with wind at or above the threshold
WindyDays == {TodayDay - 2}

WindSpeedOn(k) == IF k \in HomeDays \ WindyDays THEN 5 ELSE 30

\* what the wind collection holds for a range: nothing for range 1 and for
\* the days after today, one observation of its own for every other range
QueryResult(k) ==
    IF k = 1 \/ k > TodayDay THEN <<>>
    ELSE <<FetchedOf(Observation(k * IntervalSeconds,
                                 [windSpeed |-> WindSpeedOn(k), windGust |-> 50,
                                  windDirection |-> 350]))>>

\* what a rejected getDocs promise can carry
Thrown == {[isError |-> TRUE, message |-> "permission-denied"],
           [isError |-> FALSE, message |-> "offline"]}

ErrorOf_Raw(err) == [message |-> err.message]

\* err instanceof Error ? err : new Error('An unknown error occurred')
ErrorOf(err) ==
    IF err.isError THEN [message |-> err.message]
    ELSE [message |-> "An unknown error occurred"]

CacheIsFresh_Inclusive(entry) ==
    entry.present /\ dateNow - entry.timestamp <= CACHE_TIME

\* cachedData && Date.now() - cachedData.timestamp < CACHE_TIME
CacheIsFresh(entry) ==
    entry.present /\ dateNow - entry.timestamp < CACHE_TIME

\* the ref a settled promise of request r reads is that of r's own hook
\* instance; the cleanup of an unmounted instance left it false
MountedFor(r) == r.inst = instance /\ isMountedRef

\* the effect body up to the await, for the props of range k, run on the
\* state (data0, error0, isEmpty0) of hook instance inst
FetchDataEffect(k, inst, data0, error0, isEmpty0) ==
    /\ isMountedRef' = TRUE
    /\ hookRange' = k
    /\ instance' = inst
    /\ effects' = effects + 1
    /\ IF CacheIsFresh(cache[k])
       THEN /\ windData' = cache[k].data
            /\ loading' = FALSE
            /\ isEmpty' = FALSE
            /\ error' = error0
            /\ UNCHANGED <<inflight, queries>>
       ELSE /\ windData' = data0
            /\ loading' = TRUE
            /\ error' = NULL
            /\ isEmpty' = isEmpty0
            /\ queries' = queries + 1
            /\ inflight' = inflight \cup {[key |-> k, inst |-> inst, seq |-> queries + 1]}
    /\ UNCHANGED <<cache, dateNow>>

\* the effect in a component that does nothing else
FetchData(k, inst, data0, error0, isEmpty0) ==
    /\ FetchDataEffect(k, inst, data0, error0, isEmpty0)
    /\ UNCHANGED <<aggVars, call2, homeVars, forecastVars>>

\* a component calling the hook is mounted: fresh state, then the effect
Mount(k) ==
    /\ ~isMountedRef
    /\ effects < MaxEffects
    /\ FetchData(k, instance + 1, <<>>, NULL, FALSE)

\* the props change (to new Date objects, possibly of the same range):
\* cleanup, then the effect again
ChangeRange(k) ==
    /\ isMountedRef
    /\ effects < MaxEffects
    /\ FetchData(k, instance, windData, error, isEmpty)

\* the component is unmounted: the cleanup
Unmount ==
    /\ isMountedRef
    /\ isMountedRef' = FALSE
    /\ UNCHANGED <<windData, hookRange, loading, error, isEmpty, instance, cache,
                   inflight, effects, queries, dateNow>>
    /\ UNCHANGED <<aggVars, call2, homeVars, forecastVars>>

\* getDocs resolves: the rest of the try block and the finally block
QuerySucceeds(r) ==
    /\ r \in inflight
    /\ inflight' = inflight \ {r}
    /\ IF MountedFor(r)
       THEN /\ windData' = QueryResult(r.key)
            /\ isEmpty' = (Len(QueryResult(r.key)) = 0)
            /\ cache' = [cache EXCEPT ![r.key] =
                            [present |-> TRUE, data |-> QueryResult(r.key),
                             timestamp |-> dateNow]]
            /\ loading' = FALSE
       ELSE UNCHANGED <<windData, isEmpty, cache, loading>>
    /\ UNCHANGED <<hookRange, error, isMountedRef, instance, effects, queries, dateNow>>
    /\ UNCHANGED <<aggVars, call2, homeVars, forecastVars>>

\* getDocs rejects: the catch block and the finally block
QueryFails(r, err) ==
    /\ r \in inflight
    /\ inflight' = inflight \ {r}
    /\ IF MountedFor(r)
       THEN /\ error' = ErrorOf(err)
            /\ loading' = FALSE
       ELSE UNCHANGED <<error, loading>>
    /\ UNCHANGED <<windData, isEmpty, cache, hookRange, isMountedRef, instance,
                   effects, queries, dateNow>>
    /\ UNCHANGED <<aggVars, call2, homeVars, forecastVars>>

\* time passes
Tick ==
    /\ dateNow < MaxTicks * ClockStep
    /\ dateNow' = dateNow + ClockStep
    /\ UNCHANGED <<windData, hookRange, loading, error, isEmpty, isMountedRef,
                   instance, cache, inflight, effects, queries>>
    /\ UNCHANGED <<aggVars, call2, homeVars, forecastVars>>

InitHook ==
    /\ windData = <<>>
    /\ processedWindData = <<>>
    /\ todayTimeWindow = NULL
    /\ AggregationNotStarted
    /\ pc = "process"
    /\ call2 = NoCall
    /\ HookIdle
    /\ HomeIdle

NextHook ==
    \/ \E k \in Ranges : Mount(k) /\ UNCHANGED renderVars
    \/ \E k \in Ranges : ChangeRange(k) /\ UNCHANGED renderVars
    \/ Unmount /\ UNCHANGED renderVars
    \/ \E r \in inflight : QuerySucceeds(r) /\ UNCHANGED renderVars
    \/ \E r \in inflight, err \in Thrown : QueryFails(r, err) /\ UNCHANGED renderVars
    \/ Tick /\ UNCHANGED renderVars

SpecHook == InitHook /\ [][NextHook]_vars

----------------------------------------------------------------------------
(* Home: state, user events, effects *)

SECONDS_PER_DAY == 24 * SECONDS_PER_HOUR
MILLISECONDS == 1000
GOOD == 10
MAX_SEARCH_ATTEMPTS == 10
MAX_DAYS_AHEAD == 10
MAX_DAYS_BACK == 30

addDays(d, n) == d + n * SECONDS_PER_DAY
subDays(d, n) == d - n * SECONDS_PER_DAY

\* the key of startOfDay(d) .. endOfDay(d)
DayOf(d) == d \div SECONDS_PER_DAY

\* new Date(): the component is mounted at noon of TodayDay
Now == TodayDay * SECONDS_PER_DAY + SECONDS_PER_DAY \div 2 + dateNow \div MILLISECONDS

\* the dates the date input is set to (midnight of the chosen day)
PickDays == {TodayDay - (MAX_DAYS_BACK - 1), TodayDay + (MAX_DAYS_AHEAD - 1)}

\* const loading = windLoading || forecastLoading
HomeLoading == loading \/ forecastLoading

\* React runs the pending effects of a render before it handles anything else
RenderPending == fetchPending \/ searchPending

\* what the SMHI point forecast yields for a range after the filter on
\* validTime: one value per day from today on, strong wind three days ahead
ForecastResult(k) ==
    IF k < TodayDay \/ k >= TodayDay + MAX_DAYS_AHEAD THEN <<>>
    ELSE <<[time |-> k * SECONDS_PER_DAY + SECONDS_PER_DAY \div 2,
            windSpeed |-> IF k = TodayDay + 3 THEN 30 ELSE 5,
            windDirection |-> 350]>>

\* processedForecastData: the entries of currentDate's day that lie today or
\* later and inside todayTimeWindow
ProcessedForecast(data, date, window) ==
    SelectSeq(data,
              LAMBDA f : /\ DayOf(f.time) = DayOf(date)
                         /\ (DayOf(f.time) = DayOf(Now) \/ f.time > Now)
                         /\ (window # NULL =>
                                (f.time >= window.start /\ f.time <= window.end)))

\* a best value of some hour is at least GOOD
HasWindyDay(wind, forecast) ==
    \/ \E i \in 1..Len(ProcessedOf(wind)) :
          LET o == ProcessedOf(wind)[i]
          IN  ~o.windSpeed.nan /\ o.windSpeed.value >= GOOD
    \/ \E i \in 1..Len(forecast) : forecast[i].windSpeed >= GOOD

aggRest == <<processedWindData, filteredData, aggregatedData, currentIntervalStart,
             nextIntervalStart, sumWindSpeed, sumWindGust, sumWindDirectionSin,
             sumWindDirectionCos, count, idx, pc>>

\* the effect of useForecast for the range of day k: the controller of the
\* request before is aborted, whose promise, if not yet settled, rejects with
\* an AbortError, caught and followed by the finally block; then a new request
ForecastEffect(k) ==
    LET aborted == {r \in forecastInflight : r.seq = abortControllerRef}
    IN  /\ abortControllerRef' = abortControllerRef + 1
        /\ forecastInflight' =
               (forecastInflight \ aborted) \cup {[key |-> k, seq |-> abortControllerRef + 1]}
        /\ forecastLoading' = IF aborted # {} THEN FALSE ELSE forecastLoading
        /\ UNCHANGED <<forecastData, forecastError>>

EndSearch_KeepAttempts ==
    /\ searchingWindyDays' = NULL
    /\ searchAttemptsRef' = searchAttemptsRef + 1
    /\ UNCHANGED <<currentDate, timeRange, showForecast, showOnlyForecast,
                   todayTimeWindow>>

\* setSearchingWindyDays(null); searchAttemptsRef.current = 0; return
EndSearch ==
    /\ searchingWindyDays' = NULL
    /\ searchAttemptsRef' = 0
    /\ UNCHANGED <<currentDate, timeRange, showForecast, showOnlyForecast,
                   todayTimeWindow>>

SearchLimitReached_Eleven(attempts) == attempts >= MAX_SEARCH_ATTEMPTS + 1

SearchLimitReached(attempts) == attempts >= MAX_SEARCH_ATTEMPTS

TooFarAhead_NoLimit(nextDate) == FALSE

TooFarAhead(nextDate) == nextDate > addDays(Now, MAX_DAYS_AHEAD)

TooFarBack(nextDate) == nextDate < subDays(Now, MAX_DAYS_BACK)

\* the windy-day search effect, on the values of the render it belongs to
SearchEffect ==
    IF searchingWindyDays = NULL \/ HomeLoading
    THEN UNCHANGED <<currentDate, timeRange, showForecast, showOnlyForecast,
                     searchingWindyDays, searchAttemptsRef, todayTimeWindow>>
    ELSE IF HasWindyDay(windData,
                        ProcessedForecast(forecastData, currentDate, todayTimeWindow))
    THEN /\ timeRange' = 1
         /\ showForecast' = TRUE
         /\ showOnlyForecast' = FALSE
         /\ todayTimeWindow' = NULL
         /\ searchingWindyDays' = NULL
         /\ searchAttemptsRef' = 0
         /\ UNCHANGED currentDate
    ELSE IF SearchLimitReached(searchAttemptsRef + 1)
    THEN EndSearch
    ELSE LET nextDate == IF searchingWindyDays.direction = "forward"
                         THEN addDays(currentDate, 1)
                         ELSE subDays(currentDate, 1)
         IN  IF \/ searchingWindyDays.direction = "forward" /\ TooFarAhead(nextDate)
                \/ searchingWindyDays.direction = "backward" /\ TooFarBack(nextDate)
             THEN EndSearch
             ELSE /\ currentDate' = nextDate
                  /\ searchAttemptsRef' = searchAttemptsRef + 1
                  /\ UNCHANGED <<timeRange, showForecast, showOnlyForecast,
                                 searchingWindyDays, todayTimeWindow>>

\* what makes the search effect run again after the next render: one of its
\* dependencies loading, groupedByDate, groupedForecastData,
\* searchingWindyDays, currentDate has changed
SearchDepsChange ==
    \/ currentDate' # currentDate
    \/ searchingWindyDays' # searchingWindyDays
    \/ (loading' \/ forecastLoading') # HomeLoading
    \/ windData' # windData
    \/ forecastData' # forecastData
    \/ todayTimeWindow' # todayTimeWindow

\* a render and its effects, in the order of their declaration: useWindData,
\* useForecast, the windy-day search
Render ==
    /\ RenderPending
    /\ IF fetchPending
       THEN /\ FetchDataEffect(DayOf(currentDate), instance, windData, error, isEmpty)
            /\ ForecastEffect(DayOf(currentDate))
       ELSE UNCHANGED <<windData, hookVars, forecastVars>>
    /\ IF searchPending
       THEN SearchEffect
       ELSE UNCHANGED <<currentDate, timeRange, showForecast, showOnlyForecast,
                        searchingWindyDays, searchAttemptsRef, todayTimeWindow>>
    /\ fetchPending' = (currentDate' # currentDate)
    /\ searchPending' = SearchDepsChange
    /\ UNCHANGED <<clicks, failures, aggRest, call2>>

\* no request of the two hooks is under way
Settled == inflight = {} /\ forecastInflight = {}

\* a user event is handled after the pending effects have run; while a
\* search is running the user clicks nothing but the two search buttons, and
\* while requests are under way nothing but the buttons that look at loading
UserEvent ==
    /\ ~RenderPending
    /\ clicks + failures < MaxEvents
    /\ clicks' = clicks + 1
    /\ UNCHANGED <<failures, windData, hookVars, forecastVars, aggRest, call2>>

NoEffectOfClick ==
    UNCHANGED <<currentDate, timeRange, showForecast, showOnlyForecast,
                searchingWindyDays, searchAttemptsRef, todayTimeWindow, fetchPending,
                searchPending>>

DateChanged ==
    /\ fetchPending' = TRUE
    /\ searchPending' = TRUE

handlePrevious_AlwaysEnabled ==
    /\ UserEvent
    /\ searchingWindyDays = NULL
    /\ currentDate > (TodayDay - MAX_DAYS_BACK - 1) * SECONDS_PER_DAY
    /\ IF HomeLoading THEN NoEffectOfClick
       ELSE /\ currentDate' = subDays(currentDate, 1)
            /\ showForecast' = FALSE
            /\ todayTimeWindow' = NULL
            /\ DateChanged
            /\ UNCHANGED <<timeRange, showOnlyForecast, searchingWindyDays,
                           searchAttemptsRef>>

\* the button is disabled while showOnlyForecast
handlePrevious ==
    /\ UserEvent
    /\ searchingWindyDays = NULL
    /\ ~showOnlyForecast
    /\ currentDate > (TodayDay - MAX_DAYS_BACK - 1) * SECONDS_PER_DAY
    /\ IF HomeLoading THEN NoEffectOfClick
       ELSE /\ currentDate' = subDays(currentDate, 1)
            /\ showForecast' = FALSE
            /\ todayTimeWindow' = NULL
            /\ DateChanged
            /\ UNCHANGED <<timeRange, showOnlyForecast, searchingWindyDays,
                           searchAttemptsRef>>

\* the button is disabled while showOnlyForecast
handleNext ==
    /\ UserEvent
    /\ searchingWindyDays = NULL
    /\ ~showOnlyForecast
    /\ IF HomeLoading \/ addDays(currentDate, 1) > Now THEN NoEffectOfClick
       ELSE /\ currentDate' = addDays(currentDate, 1)
            /\ showForecast' = FALSE
            /\ todayTimeWindow' = NULL
            /\ DateChanged
            /\ UNCHANGED <<timeRange, showOnlyForecast, searchingWindyDays,
                           searchAttemptsRef>>

handleDateChange(day) ==
    /\ UserEvent
    /\ searchingWindyDays = NULL
    /\ Settled
    /\ currentDate' = day * SECONDS_PER_DAY
    /\ showOnlyForecast' = FALSE
    /\ todayTimeWindow' = NULL
    /\ DateChanged
    /\ UNCHANGED <<timeRange, showForecast, searchingWindyDays, searchAttemptsRef>>

handleTimeRangeChange(newRange) ==
    /\ UserEvent
    /\ searchingWindyDays = NULL
    /\ Settled
    /\ timeRange' = newRange
    /\ todayTimeWindow' = NULL
    /\ searchPending' = (todayTimeWindow # NULL)
    /\ UNCHANGED <<currentDate, showForecast, showOnlyForecast, searchingWindyDays,
                   searchAttemptsRef, fetchPending>>

handleTodayClick ==
    /\ UserEvent
    /\ searchingWindyDays = NULL
    /\ Settled
    /\ todayTimeWindow' = TodayWindow(Now)
    /\ currentDate' = Now
    /\ showForecast' = TRUE
    /\ showOnlyForecast' = FALSE
    /\ DateChanged
    /\ UNCHANGED <<timeRange, searchingWindyDays, searchAttemptsRef>>

handleForecastClick ==
    /\ UserEvent
    /\ searchingWindyDays = NULL
    /\ Settled
    /\ currentDate' = Now
    /\ showForecast' = TRUE
    /\ showOnlyForecast' = TRUE
    /\ todayTimeWindow' = NULL
    /\ DateChanged
    /\ UNCHANGED <<timeRange, searchingWindyDays, searchAttemptsRef>>

handleRefresh ==
    /\ UserEvent
    /\ searchingWindyDays = NULL
    /\ Settled
    /\ currentDate' = Now
    /\ todayTimeWindow' = IF todayTimeWindow # NULL THEN TodayWindow(Now) ELSE NULL
    /\ DateChanged
    /\ UNCHANGED <<timeRange, showForecast, showOnlyForecast, searchingWindyDays,
                   searchAttemptsRef>>

findNextWindyDate(direction) ==
    /\ UserEvent
    /\ IF HomeLoading \/ searchingWindyDays # NULL THEN NoEffectOfClick
       ELSE /\ searchAttemptsRef' = 0
            /\ searchingWindyDays' = [direction |-> direction]
            /\ searchPending' = TRUE
            /\ UNCHANGED <<currentDate, timeRange, showForecast, showOnlyForecast,
                           todayTimeWindow, fetchPending>>

\* the database answers the queries of a component in the order they were
\* sent (responses that overtake each other are the subject of SpecHook)
Deliverable(r) == \A q \in inflight : q.seq >= r.seq

\* the hooks' promises settle in a mounted component
WindQuerySucceeds(r) ==
    /\ ~RenderPending
    /\ Deliverable(r)
    /\ QuerySucceeds(r)
    /\ searchPending' = TRUE
    /\ UNCHANGED <<fetchPending, failures>>

WindQueryFails(r, err) ==
    /\ ~RenderPending
    /\ Deliverable(r)
    /\ clicks + failures < MaxEvents
    /\ QueryFails(r, err)
    /\ failures' = failures + 1
    /\ searchPending' = ((loading' \/ forecastLoading') # HomeLoading)
    /\ UNCHANGED fetchPending

\* fetch resolves with an ok response: the rest of the try block, finally
ForecastSucceeds(r) ==
    /\ ~RenderPending
    /\ r \in forecastInflight
    /\ forecastInflight' = forecastInflight \ {r}
    /\ forecastData' = ForecastResult(r.key)
    /\ forecastLoading' = FALSE
    /\ searchPending' = TRUE
    /\ UNCHANGED <<forecastError, abortControllerRef, fetchPending, failures>>
    /\ UNCHANGED <<windData, hookVars, homeVars, aggVars, call2>>

\* fetch rejects or the response is not ok: catch, finally
ForecastFails(r) ==
    /\ ~RenderPending
    /\ clicks + failures < MaxEvents
    /\ failures' = failures + 1
    /\ r \in forecastInflight
    /\ forecastInflight' = forecastInflight \ {r}
    /\ forecastError' = [message |-> "Failed to fetch forecast data"]
    /\ forecastLoading' = FALSE
    /\ searchPending' = ((loading \/ forecastLoading') # HomeLoading)
    /\ UNCHANGED <<forecastData, abortControllerRef, fetchPending>>
    /\ UNCHANGED <<windData, hookVars, homeVars, aggVars, call2>>

\* time passes while the component is shown
ViewTick ==
    /\ ~RenderPending
    /\ Tick
    /\ UNCHANGED renderVars

\* Home after its first render, the effects still to run
InitHome ==
    /\ dateNow = 0
    /\ currentDate = Now
    /\ timeRange = 1
    /\ showForecast = TRUE
    /\ showOnlyForecast = FALSE
    /\ todayTimeWindow = TodayWindow(Now)
    /\ searchingWindyDays = NULL
    /\ searchAttemptsRef = 0
    /\ clicks = 0
    /\ failures = 0
    /\ windData = <<>>
    /\ loading = TRUE
    /\ error = NULL
    /\ isEmpty = FALSE
    /\ isMountedRef = TRUE
    /\ instance = 1
    /\ hookRange = 0
    /\ cache = [k \in HomeDays |-> NoEntry]
    /\ inflight = {}
    /\ effects = 0
    /\ queries = 0
    /\ forecastData = <<>>
    /\ forecastLoading = TRUE
    /\ forecastError = NULL
    /\ forecastInflight = {}
    /\ abortControllerRef = 0
    /\ fetchPending = TRUE
    /\ searchPending = TRUE
    /\ processedWindData = <<>>
    /\ AggregationNotStarted
    /\ pc = "process"
    /\ call2 = NoCall

NextHome ==
    \/ Render
    \/ handlePrevious
    \/ handleNext
    \/ \E day \in PickDays : handleDateChange(day)
    \/ \E newRange \in {1, 7} : handleTimeRangeChange(newRange)
    \/ handleTodayClick
    \/ handleForecastClick
    \/ handleRefresh
    \/ \E direction \in {"forward", "backward"} : findNextWindyDate(direction)
    \/ \E r \in inflight : WindQuerySucceeds(r)
    \/ \E r \in inflight, err \in {e \in Thrown : e.isError} : WindQueryFails(r, err)
    \/ \E r \in forecastInflight : ForecastSucceeds(r)
    \/ \E r \in forecastInflight : ForecastFails(r)

SpecHome == InitHome /\ [][NextHome]_vars

\* React runs the pending effects, and every fetch completes
SpecHomeLive ==
    /\ InitHome
    /\ [][NextHome]_vars
    /\ WF_vars(Render)
    /\ WF_vars(\E r \in inflight : WindQuerySucceeds(r))
    /\ WF_vars(\E r \in forecastInflight : ForecastSucceeds(r))

----------------------------------------------------------------------------
(* ChartView: the same hooks and effects, its own handlers, no search *)

\* the component function computes initialTodayTimeWindow from new Date() at
\* every render: the times at which a render can have happened
RenderTimes ==
    {t \in {TodayDay * SECONDS_PER_DAY + SECONDS_PER_DAY \div 2
               + (j * ClockStep) \div MILLISECONDS : j \in 0..MaxTicks} : t <= Now}

ChartView_handlePrevious ==
    /\ UserEvent
    /\ currentDate > (TodayDay - MAX_DAYS_BACK - 1) * SECONDS_PER_DAY
    /\ IF HomeLoading THEN NoEffectOfClick
       ELSE /\ currentDate' = subDays(currentDate, 1)
            /\ showForecast' = FALSE
            /\ todayTimeWindow' = NULL
            /\ DateChanged
            /\ UNCHANGED <<timeRange, showOnlyForecast, searchingWindyDays,
                           searchAttemptsRef>>

ChartView_handleNext_NoTodayCheck ==
    /\ UserEvent
    /\ IF HomeLoading THEN NoEffectOfClick
       ELSE /\ currentDate' = addDays(currentDate, 1)
            /\ showForecast' = FALSE
            /\ todayTimeWindow' = NULL
            /\ DateChanged
            /\ UNCHANGED <<timeRange, showOnlyForecast, searchingWindyDays,
                           searchAttemptsRef>>

ChartView_handleNext ==
    /\ UserEvent
    /\ IF HomeLoading \/ addDays(currentDate, 1) > Now THEN NoEffectOfClick
       ELSE /\ currentDate' = addDays(currentDate, 1)
            /\ showForecast' = FALSE
            /\ todayTimeWindow' = NULL
            /\ DateChanged
            /\ UNCHANGED <<timeRange, showOnlyForecast, searchingWindyDays,
                           searchAttemptsRef>>

ChartView_handleDateChange(day) ==
    /\ UserEvent
    /\ IF HomeLoading \/ day * SECONDS_PER_DAY > Now THEN NoEffectOfClick
       ELSE /\ currentDate' = day * SECONDS_PER_DAY
            /\ showForecast' = FALSE
            /\ todayTimeWindow' = NULL
            /\ DateChanged
            /\ UNCHANGED <<timeRange, showOnlyForecast, searchingWindyDays,
                           searchAttemptsRef>>

ChartView_handleTodayClick ==
    /\ UserEvent
    /\ IF HomeLoading THEN NoEffectOfClick
       ELSE /\ currentDate' = Now
            /\ showForecast' = TRUE
            /\ \E t \in RenderTimes : todayTimeWindow' = TodayWindow(t)
            /\ DateChanged
            /\ UNCHANGED <<timeRange, showOnlyForecast, searchingWindyDays,
                           searchAttemptsRef>>

ChartView_handleForecastClick ==
    /\ UserEvent
    /\ IF HomeLoading THEN NoEffectOfClick
       ELSE /\ showForecast' = ~showForecast
            /\ UNCHANGED <<currentDate, timeRange, showOnlyForecast, searchingWindyDays,
                           searchAttemptsRef, todayTimeWindow, fetchPending,
                           searchPending>>

InitChartView == InitHome

NextChartView ==
    \/ Render
    \/ ChartView_handlePrevious
    \/ ChartView_handleNext
    \/ \E day \in PickDays : ChartView_handleDateChange(day)
    \/ ChartView_handleTodayClick
    \/ ChartView_handleForecastClick
    \/ \E r \in inflight : WindQuerySucceeds(r)
    \/ \E r \in inflight, err \in {e \in Thrown : e.isError} : WindQueryFails(r, err)
    \/ \E r \in forecastInflight : ForecastSucceeds(r)
    \/ \E r \in forecastInflight : ForecastFails(r)
    \/ ViewTick

SpecChartView == InitChartView /\ [][NextChartView]_vars

----------------------------------------------------------------------------
(* From the fetched data to the sequence handed to the forEach loop *)

InitProcess ==
    /\ windData \in FetchedInputs
    /\ processedWindData = <<>>
    /\ todayTimeWindow \in TimeWindows
    /\ AggregationNotStarted
    /\ pc = "process"
    /\ call2 = NoCall
    /\ HookIdle
    /\ HomeIdle

\* the processedWindData memo
ProcessWindData ==
    /\ pc = "process"
    /\ processedWindData' = ProcessedOf(windData)
    /\ pc' = "start"
    /\ UNCHANGED <<todayTimeWindow, filteredData, aggregatedData, currentIntervalStart,
                   nextIntervalStart, sumWindSpeed, sumWindGust, sumWindDirectionSin,
                   sumWindDirectionCos, count, idx>>
    /\ UNCHANGED envVars

NextProcess ==
    \/ ProcessWindData
    \/ AggregateBegin

SpecProcess == InitProcess /\ [][NextProcess]_vars

----------------------------------------------------------------------------
(* Properties of the aggregation *)

\* the 15-minute grid window an instant lies in
GridWindow(t) == t - (t % IntervalSeconds)

InIntervalOf(o, b) == b.time <= o.time /\ o.time < b.time + IntervalSeconds

RECURSIVE SumOf(_, _)
SumOf(s, field) == IF Len(s) = 0 THEN 0 ELSE s[1][field] + SumOf(Tail(s), field)

ObservationsIn(b) ==
    LET Test(o) == InIntervalOf(o, b) IN SelectSeq(filteredData, Test)

Buckets == {aggregatedData[i] : i \in 1..Len(aggregatedData)}

Inputs == {filteredData[i] : i \in 1..Len(filteredData)}

SameReading(o1, o2) ==
    /\ o1.windSpeed = o2.windSpeed
    /\ o1.windGust = o2.windGust
    /\ o1.windDirection = o2.windDirection

\* C1: when the aggregation has returned, every bucket's windSpeed and
\* windGust are the arithmetic means over exactly the input observations with
\* bucket.time <= t < bucket.time + 15 minutes, and every observation lies in
\* the interval of some bucket (none is counted before a bucket's own start).
C1_BucketMeansOverOwnInterval ==
    pc = "done" =>
        /\ \A b \in Buckets :
              LET members == ObservationsIn(b)
              IN  /\ Len(members) > 0
                  /\ b.windSpeed = Div(SumOf(members, "windSpeed"), Len(members))
                  /\ b.windGust = Div(SumOf(members, "windGust"), Len(members))
        /\ \A o \in Inputs : \E b \in Buckets : InIntervalOf(o, b)

\* C2: the first bucket starts at the first observation's time floored to a
\* 15-minute boundary, so never later than the first observation.
C2_FirstStartIsFloor ==
    (pc = "done" /\ Len(filteredData) > 0) =>
        /\ Len(aggregatedData) > 0
        /\ aggregatedData[1].time = GridWindow(filteredData[1].time)
        /\ aggregatedData[1].time <= filteredData[1].time

\* C3: the starts of the emitted buckets are strictly increasing.
C3_StartsStrictlyIncreasing ==
    \A i, j \in 1..Len(aggregatedData) :
        i < j => aggregatedData[i].time < aggregatedData[j].time

C3_Witness ==
    /\ pc = "done"
    /\ Len(aggregatedData) >= 3

\* C4: the number of buckets is the number of distinct 15-minute grid windows
\* holding an observation, and every bucket starts on the 15-minute grid.
C4_OneBucketPerGridWindow ==
    pc = "done" =>
        /\ Len(aggregatedData) = Cardinality({GridWindow(o.time) : o \in Inputs})
        /\ \A b \in Buckets : b.time % IntervalSeconds = 0

\* C5: an observation exactly at the current interval's end is never added to
\* the current accumulator: the step taken closes the interval, and the bucket
\* it ends up in starts at the observation's own time.
C5_BoundaryGoesToNextBucket ==
    /\ [][(/\ pc = "forEach"
           /\ idx <= Len(filteredData)
           /\ filteredData[idx].time = nextIntervalStart)
          => (/\ idx' = idx
              /\ count' = 0
              /\ currentIntervalStart' = filteredData[idx].time)]_vars
    /\ [](pc = "done" =>
            \A o \in Inputs : \A b \in Buckets :
                o.time = b.time + IntervalSeconds => \E b2 \in Buckets : b2.time = o.time)

C5_Witness ==
    /\ pc = "done"
    /\ \E i \in 1..(Len(aggregatedData) - 1) :
          /\ aggregatedData[i + 1].time = aggregatedData[i].time + IntervalSeconds
          /\ \E o \in Inputs : o.time = aggregatedData[i + 1].time

\* C6: a bucket is pushed only when count > 0, so no bucket holds the result
\* of a division by zero and there are never more buckets than observations
\* consumed.
C6_PushOnlyWithPositiveCount ==
    /\ [][Len(aggregatedData') > Len(aggregatedData) => count > 0]_vars
    /\ [](/\ \A b \in Buckets :
                b.windSpeed # NaN /\ b.windGust # NaN /\ b.windDirection # NaN
          /\ (pc = "forEach" => Len(aggregatedData) <= idx - 1)
          /\ (pc = "done" => Len(aggregatedData) <= Len(filteredData)))

C6_Witness ==
    /\ pc = "done"
    /\ \E i \in 1..(Len(aggregatedData) - 1) :
          aggregatedData[i + 1].time - aggregatedData[i].time >= 2 * IntervalSeconds

\* C7: every bucket starts on a 15-minute boundary and any two starts differ
\* by a whole multiple of 15 minutes.
C7_StartsOnGrid ==
    /\ \A b \in Buckets : b.time % IntervalSeconds = 0
    /\ \A b1, b2 \in Buckets : Abs(b1.time - b2.time) % IntervalSeconds = 0

C7_Witness ==
    /\ pc = "done"
    /\ Len(aggregatedData) >= 2
    /\ \A o \in Inputs : o.time % IntervalSeconds # 0

\* C8: with no wind data, or none inside todayTimeWindow, the result is empty.
C8_EmptyInputGivesEmptyOutput ==
    (/\ pc = "done"
     /\ \A i \in 1..Len(processedWindData) :
           /\ todayTimeWindow # NULL
           /\ ~(/\ processedWindData[i].time >= todayTimeWindow.start
                /\ processedWindData[i].time <= todayTimeWindow.end))
    => aggregatedData = <<>>

C8_Witness ==
    /\ pc = "done"
    /\ Len(processedWindData) > 0
    /\ todayTimeWindow # NULL
    /\ filteredData = <<>>
    /\ aggregatedData = <<>>

\* N >= 1 observations with one reading, all in one 15-minute grid window
IdenticalInOneWindow ==
    /\ pc = "done"
    /\ Len(filteredData) >= 1
    /\ \A o \in Inputs :
          /\ SameReading(o, filteredData[1])
          /\ GridWindow(o.time) = GridWindow(filteredData[1].time)

\* C9 as stated: N identical observations in one interval give one bucket
\* whose mean speed, gust and direction equal the observation's values.
C9_IdenticalKeepValues ==
    IdenticalInOneWindow =>
        /\ Len(aggregatedData) = 1
        /\ aggregatedData[1].windSpeed = Div(filteredData[1].windSpeed, 1)
        /\ aggregatedData[1].windGust = Div(filteredData[1].windGust, 1)
        /\ aggregatedData[1].windDirection = Div(filteredData[1].windDirection, 1)

\* C9 amended: N identical observations in one interval give one bucket whose
\* mean speed and gust equal the observation's values and whose direction is
\* the observation's direction brought into [0, 360).
C9_IdenticalKeepValuesMod360 ==
    IdenticalInOneWindow =>
        /\ Len(aggregatedData) = 1
        /\ aggregatedData[1].windSpeed = Div(filteredData[1].windSpeed, 1)
        /\ aggregatedData[1].windGust = Div(filteredData[1].windGust, 1)
        /\ aggregatedData[1].windDirection.den = 1
        /\ aggregatedData[1].windDirection.num \in 0..(FULL_CIRCLE - 1)
        /\ (aggregatedData[1].windDirection.num - filteredData[1].windDirection)
               % FULL_CIRCLE = 0

C9_Witness ==
    /\ IdenticalInOneWindow
    /\ Len(filteredData) >= 2
    /\ filteredData[1].windDirection = 350
    /\ Len(aggregatedData) = 1

\* C10: observations that all lie in one 15-minute grid window give exactly
\* one bucket.
C10_OneWindowOneBucket ==
    (/\ pc = "done"
     /\ Len(filteredData) >= 1
     /\ \A o \in Inputs : GridWindow(o.time) = GridWindow(filteredData[1].time))
    => Len(aggregatedData) = 1

C10_Witness ==
    /\ pc = "done"
    /\ Len(filteredData) >= 2
    /\ \A o \in Inputs : GridWindow(o.time) = GridWindow(filteredData[1].time)
    /\ \E o1, o2 \in Inputs : ~SameReading(o1, o2)
    /\ Len(aggregatedData) = 1

\* the directions of the input observations, in input order
InputDirections == [i \in 1..Len(filteredData) |-> filteredData[i].windDirection]

\* C11: two observations with directions 350 and 10 degrees that end up in
\* one bucket give that bucket a direction within one degree of 0 (the
\* circular mean), not 180 (the arithmetic mean).
C11_CircularMeanAcrossNorth ==
    (/\ pc = "done"
     /\ Len(aggregatedData) = 1
     /\ InputDirections \in {<<350, 10>>, <<10, 350>>})
    => /\ aggregatedData[1].windDirection.den = 1
       /\ aggregatedData[1].windDirection.num \in {FULL_CIRCLE - 1, 0, 1}
       /\ aggregatedData[1].windDirection # Div(HALF_CIRCLE, 1)

C11_Witness ==
    /\ pc = "done"
    /\ Len(aggregatedData) = 1
    /\ InputDirections = <<350, 10>>
    /\ aggregatedData[1].windDirection = Div(0, 1)

\* normalize360(x) = ((x mod 360) + 360) mod 360
Normalize360(x) == (JsRem(x, FULL_CIRCLE) + FULL_CIRCLE) % FULL_CIRCLE

\* C12: every bucket's windDirection is in [0, 360), and for every whole
\* degree x in [-180, 180] the code's (x + 360) % 360 lies in [0, 360) and
\* equals normalize360(x).
C12_DirectionNormalised ==
    /\ \A b \in Buckets :
          /\ b.windDirection.den = 1
          /\ b.windDirection.num >= 0
          /\ b.windDirection.num < FULL_CIRCLE
    /\ \A x \in (0 - HALF_CIRCLE)..HALF_CIRCLE :
          LET adjusted == AdjustedWindDirection(Div(x, 1))
          IN  /\ adjusted.den = 1
              /\ adjusted.num >= 0
              /\ adjusted.num < FULL_CIRCLE
              /\ adjusted.num = Normalize360(x)

C12_Witness ==
    /\ pc = "done"
    /\ \E b \in Buckets : b.windDirection = Div(350, 1)
    /\ \E b \in Buckets : b.windDirection = Div(10, 1)

\* the observations the code adds into the i-th bucket: those before the
\* bucket's interval end that no earlier bucket took
BucketMembers(i) ==
    LET Test(o) ==
            /\ o.time < aggregatedData[i].time + IntervalSeconds
            /\ (i > 1 => o.time >= aggregatedData[i - 1].time + IntervalSeconds)
    IN  SelectSeq(filteredData, Test)

RECURSIVE MemberCount(_)
MemberCount(i) == IF i = 0 THEN 0 ELSE Len(BucketMembers(i)) + MemberCount(i - 1)

\* C13: every input observation is counted in exactly one bucket: each bucket
\* is the mean of its own non-empty group of observations, the groups add up
\* to the input length, and an accumulator holding observations is never
\* dropped, neither when an interval is closed nor at the end of the loop.
C13_EveryObservationInOneBucket ==
    /\ [](pc = "done" =>
            /\ \A i \in 1..Len(aggregatedData) :
                  LET members == BucketMembers(i)
                  IN  /\ Len(members) > 0
                      /\ aggregatedData[i].windSpeed =
                             Div(SumOf(members, "windSpeed"), Len(members))
                      /\ aggregatedData[i].windGust =
                             Div(SumOf(members, "windGust"), Len(members))
            /\ MemberCount(Len(aggregatedData)) = Len(filteredData))
    /\ [][(count > 0 /\ (count' = 0 \/ pc' = "done"))
              => Len(aggregatedData') = Len(aggregatedData) + 1]_vars

C13_Witness ==
    /\ pc = "done"
    /\ Len(filteredData) = 3
    /\ Len(aggregatedData) = 2
    /\ Len(BucketMembers(2)) = 2
    /\ filteredData[3].time < aggregatedData[2].time + IntervalSeconds - 1

----------------------------------------------------------------------------
(* Properties of processedWindData *)

IsFiniteNumber(v) == v.typeof = "number" /\ ~v.nan

\* C14: every observation that reaches the forEach loop has a valid time and
\* finite numeric windSpeed, windGust and windDirection.
C14_OnlyValidObservationsReachAggregation ==
    pc \in {"forEach", "done"} =>
        \A o \in Inputs :
            /\ o.validTime
            /\ IsFiniteNumber(o.windSpeed)
            /\ IsFiniteNumber(o.windGust)
            /\ IsFiniteNumber(o.windDirection)

\* C15: whatever was fetched, processedWindData and the window-filtered
\* sequence handed to the forEach loop are strictly ascending by time.
C15_HandedOverSortedAndUnique ==
    /\ pc # "process" => IsProcessed(processedWindData)
    /\ pc \in {"forEach", "done"} =>
          /\ IsProcessed(filteredData)
          /\ \A o \in Inputs : \E i \in 1..Len(windData) : windData[i] = o

C15_Witness ==
    /\ pc = "forEach"
    /\ todayTimeWindow # NULL
    /\ Len(filteredData) >= 2
    /\ Len(filteredData) < Len(windData)
    /\ \E i \in 1..(Len(windData) - 1) : windData[i].time > windData[i + 1].time
    /\ \E i, j \in 1..Len(windData) :
          i # j /\ windData[i].validTime /\ windData[j].validTime
                /\ windData[i].time = windData[j].time

----------------------------------------------------------------------------
(* Termination of the aggregation *)

Max(a, b) == IF a >= b THEN a ELSE b

FirstIntervalStart == roundToNearestMinutes(filteredData[1].time, INTERVAL_MINUTES)

\* iterations of the while loop so far
Closings == (currentIntervalStart - FirstIntervalStart) \div IntervalSeconds

\* C17 as stated: the call has done at most as many loop iterations as twice
\* the input length, that is at most one interval-closing iteration per
\* observation.
C17_WorkBoundedByInputLength ==
    (pc = "done" /\ Len(filteredData) > 0) => Closings <= Len(filteredData)

\* C17 amended: every call reaches its end, and the while loop never moves
\* currentIntervalStart past the 15-minute grid window of the last
\* observation, so the interval-closing iterations are bounded by the number
\* of 15-minute steps the input spans (not by the input length).
C17_TerminatesWithinSpan ==
    /\ <>(pc = "done")
    /\ []((pc \in {"forEach", "done"} /\ Len(filteredData) > 0) =>
            /\ currentIntervalStart <=
                   Max(FirstIntervalStart, GridWindow(filteredData[Len(filteredData)].time))
            /\ Closings >= 0
            /\ nextIntervalStart = currentIntervalStart + IntervalSeconds)

C17_Witness ==
    /\ pc = "done"
    /\ Len(filteredData) = 2
    /\ Closings >= 3

----------------------------------------------------------------------------
(* Interleaved calls *)

\* C16: however the steps of two calls on different inputs interleave, each
\* call returns what it returns when it runs alone from start to end.
C16_InterleavingKeepsOutputs ==
    /\ pc = "done" =>
          aggregatedData =
              RunCall(InitialCall(processedWindData, todayTimeWindow)).aggregatedData
    /\ call2.pc = "done" =>
          call2.aggregatedData =
              RunCall(InitialCall(call2.processedWindData,
                                  call2.todayTimeWindow)).aggregatedData

C16_Witness ==
    /\ pc = "done"
    /\ call2.pc = "done"
    /\ Len(aggregatedData) = 2
    /\ Len(call2.aggregatedData) = 1
    /\ Len(call2.filteredData) = 2

----------------------------------------------------------------------------
(* useWindData: cache, superseded queries, isEmpty *)

\* C18: an effect run for a range issues no database query, and hands out the
\* cached data, exactly when the cache holds an entry for the range that is
\* younger than CACHE_TIME; a query that resolves in the mounted hook stores
\* its result under its range with the current time as timestamp.
C18_CacheServedExactlyWhenFresh ==
    [][/\ \A k \in Ranges :
            (effects' = effects + 1 /\ hookRange' = k) =>
                /\ (queries' = queries) <=>
                       (cache[k].present /\ dateNow - cache[k].timestamp < CACHE_TIME)
                /\ (queries' = queries) =>
                       (windData' = cache[k].data /\ inflight' = inflight)
                /\ (queries' # queries) =>
                       \E r \in inflight' \ inflight : r.key = k
       /\ \A r \in inflight :
            (QuerySucceeds(r) /\ MountedFor(r)) =>
                cache'[r.key] = [present |-> TRUE, data |-> QueryResult(r.key),
                                 timestamp |-> dateNow]
      ]_vars

C18_Witness ==
    /\ effects = 2
    /\ queries = 1
    /\ isMountedRef
    /\ Len(windData) > 0
    /\ cache[hookRange].present
    /\ dateNow - cache[hookRange].timestamp = ClockStep

\* C19: once every query has settled, without error, in the mounted hook, data
\* is the result for the range requested last.
C19_SettledDataIsForLatestRange ==
    (isMountedRef /\ inflight = {} /\ error = NULL /\ ~loading) =>
        windData = QueryResult(hookRange)

\* C20: in the mounted hook with loading false and no error, isEmpty is true
\* exactly when data is empty.
C20_IsEmptyIffNoData ==
    (isMountedRef /\ ~loading /\ error = NULL) =>
        (isEmpty <=> Len(windData) = 0)

\* C21: a query that fails in the mounted hook sets error to the thrown Error,
\* or to a generic Error when the thrown value is not an Error, sets loading to
\* false and leaves data and the cache alone; an effect run that issues a
\* query sets error to null.
C21_FailureSetsErrorOnly ==
    [][/\ \A r \in inflight, err \in Thrown :
            (QueryFails(r, err) /\ MountedFor(r)) =>
                /\ err.isError => error' = [message |-> err.message]
                /\ ~err.isError => error' = [message |-> "An unknown error occurred"]
                /\ loading' = FALSE
                /\ windData' = windData
                /\ cache' = cache
       /\ queries' = queries + 1 => error' = NULL
      ]_vars

C21_Witness ==
    /\ isMountedRef
    /\ error = [message |-> "An unknown error occurred"]
    /\ ~loading
    /\ Len(windData) > 0
    /\ cache[2].present
    /\ hookRange = 1

----------------------------------------------------------------------------
(* Home: the windy-day search *)

\* a step of the search effect that goes on to another day
SearchAdvances ==
    /\ searchingWindyDays # NULL
    /\ searchingWindyDays' # NULL
    /\ currentDate' # currentDate

\* C22: a running search ends, and the attempt counter never reaches the
\* limit of 10 without the search being ended.
C22_SearchEnds ==
    /\ (searchingWindyDays # NULL) ~> (searchingWindyDays = NULL)
    /\ [](searchAttemptsRef < 10)

C22_Witness ==
    /\ searchingWindyDays = NULL
    /\ clicks = 1
    /\ DayOf(currentDate) = TodayDay + 9
    /\ ~RenderPending

\* C23: the search goes on to another day only when the wind data of the day
\* of currentDate has been asked for and has arrived.
C23_AdvanceOnlyOnLoadedDay ==
    [][SearchAdvances =>
          /\ hookRange = DayOf(currentDate)
          /\ ~loading
          /\ \A r \in inflight : r.key # DayOf(currentDate)
      ]_vars

\* C24: a search step never moves currentDate beyond 10 days after now
\* (forward) or 30 days before now (backward); a step that would do so ends
\* the search and keeps currentDate.
C24_SearchStaysWithinLimits ==
    [][/\ SearchAdvances =>
            /\ searchingWindyDays.direction = "forward" =>
                   currentDate' <= Now + 10 * SECONDS_PER_DAY
            /\ searchingWindyDays.direction = "backward" =>
                   currentDate' >= Now - 30 * SECONDS_PER_DAY
       /\ (/\ searchingWindyDays # NULL
           /\ searchingWindyDays' = NULL
           /\ \/ /\ searchingWindyDays.direction = "forward"
                 /\ currentDate + SECONDS_PER_DAY > Now + 10 * SECONDS_PER_DAY
              \/ /\ searchingWindyDays.direction = "backward"
                 /\ currentDate - SECONDS_PER_DAY < Now - 30 * SECONDS_PER_DAY)
          => currentDate' = currentDate
      ]_vars

C24_Witness ==
    /\ searchingWindyDays = NULL
    /\ clicks = 2
    /\ currentDate = (TodayDay + 10) * SECONDS_PER_DAY
    /\ ~RenderPending

\* C25: while no search is active searchAttemptsRef is 0, and
\* findNextWindyDate called while loading or while a search is active changes
\* nothing.
C25_FreshAttemptBudget ==
    /\ [](searchingWindyDays = NULL => searchAttemptsRef = 0)
    /\ [][\A direction \in {"forward", "backward"} :
             (findNextWindyDate(direction) /\ (HomeLoading \/ searchingWindyDays # NULL))
                 => UNCHANGED <<windData, aggVars, call2, hookVars, currentDate,
                                timeRange, showForecast, showOnlyForecast,
                                searchingWindyDays, searchAttemptsRef, forecastVars,
                                renderVars>>
        ]_vars

C25_Witness ==
    /\ searchingWindyDays = NULL
    /\ searchAttemptsRef = 0
    /\ clicks = 1
    /\ DayOf(currentDate) < TodayDay - 2
    /\ ~RenderPending

\* C27: showOnlyForecast implies showForecast.
C27_ForecastOnlyShowsForecast == showOnlyForecast => showForecast

C27_Witness == showOnlyForecast /\ showForecast /\ clicks = 2 /\ ~RenderPending

\* C28: while a request of useForecast is under way, its loading is true.
C28_LoadingWhileRequestUnderWay == forecastInflight # {} => forecastLoading

----------------------------------------------------------------------------
(* ChartView: navigation *)

\* C26: in ChartView currentDate is never later than the current time, and
\* handlePrevious, handleNext and handleDateChange called while loading leave
\* currentDate, showForecast and todayTimeWindow as they are.
C26_NeverInTheFuture ==
    /\ [](currentDate <= Now)
    /\ [][(/\ HomeLoading
           /\ \/ ChartView_handlePrevious
              \/ ChartView_handleNext
              \/ \E day \in PickDays : ChartView_handleDateChange(day))
          => UNCHANGED <<currentDate, showForecast, todayTimeWindow>>
        ]_vars

C26_Witness ==
    /\ clicks = 2
    /\ DayOf(currentDate) = TodayDay
    /\ showForecast = FALSE
    /\ todayTimeWindow = NULL
    /\ currentDate < Now
    /\ ~RenderPending

====
